---- MODULE Spec2Model ----
(***************************************************************************)
(* The watch side of the reminders protocol: pebble-app/src/c-legacy/main.c *)
(* The state is the file's static globals plus the window stack; the        *)
(* operations are the AppMessage inbox callback and the click callbacks.    *)
(***************************************************************************)
EXTENDS Integers, Sequences, FiniteSets, TLC

(* ------------------------------------------------------------------ *)
(* Program constants (main.c:21-32 and the buffer sizes of the globals) *)
(* ------------------------------------------------------------------ *)
CMD_LOGIN == 1
CMD_GET_LISTS == 2
CMD_GET_REMINDERS == 3
CMD_COMPLETE_REMINDER == 4
STATUS_SUCCESS == 1
STATUS_ERROR == 0
MAX_LISTS == 20
MAX_REMINDERS == 50
TOKEN_SIZE == 256
ID_SIZE == 64
LIST_TITLE_SIZE == 64
REMINDER_TITLE_SIZE == 128
ERROR_MESSAGE_SIZE == 128
UINT16_RANGE == 65536

(* ------------------------------------------------------------------ *)
(* Bounds of the model                                                  *)
(* ------------------------------------------------------------------ *)
\* inbound messages delivered in one run of Spec
MaxMsgs == 2
\* inbound messages delivered in one run of SpecView
MaxViewMsgs == 5
\* largest listing (number of list fragments) of SpecOrder
MaxListing == 3
\* how many characters an overlong string exceeds its buffer's room by
Over == 1
\* largest menu row a user selects (beside the first row out of the table)
MaxRow == 1

(* ------------------------------------------------------------------ *)
(* C strings: sequences of character codes                              *)
(* ------------------------------------------------------------------ *)
Min(a, b) == IF a < b THEN a ELSE b

Str(c, n) == [i \in 1..n |-> c]

Empty == << >>

\* a buggy copy that leaves no room for the terminating NUL
SnprintfNoNul(size, s) == SubSeq(s, 1, Min(Len(s), size))

\* snprintf(buf, size, "%s", s): at most size-1 characters are kept
Snprintf(size, s) == SubSeq(s, 1, Min(Len(s), size - 1))

\* "Error: " and "Unknown error" (main.c:126,131)
ErrorPrefix == <<69, 114, 114, 111, 114, 58, 32>>

UnknownError == <<85, 110, 107, 110, 111, 119, 110>>

(* ------------------------------------------------------------------ *)
(* Inbound dictionaries: the set of keys present and each key's value   *)
(* ------------------------------------------------------------------ *)
Blank ==
  [keys |-> {}, cmd |-> 0, status |-> 0, error |-> Empty, token |-> Empty,
   count |-> 0, index |-> 0, list_id |-> Empty, list_title |-> Empty,
   reminder_id |-> Empty, reminder_title |-> Empty, completed |-> 0]

With(m, key, val) == [m EXCEPT !.keys = @ \cup {key}, ![key] = val]

\* dict_find(iterator, KEY) != NULL
DictFind(m, key) == key \in m.keys

(* ------------------------------------------------------------------ *)
(* State: the static globals of main.c (lines 48-70), the window stack, *)
(* the persisted token, and what the last callback did                  *)
(* ------------------------------------------------------------------ *)
\* in_flight is the CompleteReminder request sent last that no
\* CompleteReminder outcome has followed yet (empty when there is none)
VARIABLES
  s_token, s_is_logged_in,
  s_lists, s_list_count, s_reminders, s_reminder_count,
  s_current_list_index, s_current_reminder_index,
  s_settings_window, s_reminders_window, s_detail_window,
  window_stack, error_message, persist_token, running,
  outbox, events, wrote, last, op, nrecv, pending, in_flight

vars ==
  <<s_token, s_is_logged_in, s_lists, s_list_count, s_reminders,
    s_reminder_count, s_current_list_index, s_current_reminder_index,
    s_settings_window, s_reminders_window, s_detail_window, window_stack,
    error_message, persist_token, running, outbox, events, wrote, last, op,
    nrecv, pending, in_flight>>

\* zero-initialised statics (main.c:58,60)
EmptyList == [id |-> Empty, title |-> Empty]

EmptyReminder == [id |-> Empty, title |-> Empty, list_id |-> Empty, completed |-> FALSE]

ListSlots == 0..(MAX_LISTS - 1)

ReminderSlots == 0..(MAX_REMINDERS - 1)

\* the globals a callback reads and writes, as one record
Globals ==
  [s_token |-> s_token, s_is_logged_in |-> s_is_logged_in,
   s_lists |-> s_lists, s_list_count |-> s_list_count,
   s_reminders |-> s_reminders, s_reminder_count |-> s_reminder_count,
   s_current_list_index |-> s_current_list_index,
   s_current_reminder_index |-> s_current_reminder_index,
   s_settings_window |-> s_settings_window,
   s_reminders_window |-> s_reminders_window,
   s_detail_window |-> s_detail_window,
   window_stack |-> window_stack, error_message |-> error_message,
   persist_token |-> persist_token, running |-> running,
   outbox |-> << >>, events |-> << >>, wrote |-> {}]

\* the callback's result becomes the next state
Commit(G) ==
  /\ s_token' = G.s_token
  /\ s_is_logged_in' = G.s_is_logged_in
  /\ s_lists' = G.s_lists
  /\ s_list_count' = G.s_list_count
  /\ s_reminders' = G.s_reminders
  /\ s_reminder_count' = G.s_reminder_count
  /\ s_current_list_index' = G.s_current_list_index
  /\ s_current_reminder_index' = G.s_current_reminder_index
  /\ s_settings_window' = G.s_settings_window
  /\ s_reminders_window' = G.s_reminders_window
  /\ s_detail_window' = G.s_detail_window
  /\ window_stack' = G.window_stack
  /\ error_message' = G.error_message
  /\ persist_token' = G.persist_token
  /\ running' = G.running
  /\ outbox' = G.outbox
  /\ events' = G.events
  /\ wrote' = G.wrote

(* ------------------------------------------------------------------ *)
(* Outgoing requests (main.c:269-300)                                   *)
(* ------------------------------------------------------------------ *)
GetListsRequest(token) == [cmd |-> CMD_GET_LISTS, token |-> token]

GetRemindersRequest(token, list_id) ==
  [cmd |-> CMD_GET_REMINDERS, token |-> token, list_id |-> list_id]

CompleteReminderRequest(token, list_id, reminder_id) ==
  [cmd |-> CMD_COMPLETE_REMINDER, token |-> token, list_id |-> list_id,
   reminder_id |-> reminder_id]

(* ------------------------------------------------------------------ *)
(* Window stack                                                         *)
(* ------------------------------------------------------------------ *)
\* window_stack_remove(w): the window leaves the stack wherever it is
WindowStackRemove(stack, w) == SelectSeq(stack, LAMBDA x : x # w)

\* the window's unload handler, run when it leaves the stack
Unload(G, w) ==
  IF w = "settings" THEN [G EXCEPT !.s_settings_window = FALSE]
  ELSE IF w = "reminders" THEN [G EXCEPT !.s_reminders_window = FALSE]
  ELSE IF w = "detail" THEN [G EXCEPT !.s_detail_window = "popped"]
  ELSE G

\* menu row counts are returned as uint16_t
NumRows(count) == count % UINT16_RANGE

(* ------------------------------------------------------------------ *)
(* inbox_received_callback (main.c:114-242)                             *)
(* ------------------------------------------------------------------ *)
\* a handler that goes on without a command key
AnyDictionary(m) == TRUE

\* main.c:115-118: a dictionary without KEY_CMD is not looked at further
HasCommand(m) == DictFind(m, "cmd")

\* main.c:121-122: a missing status counts as an error
StatusOf(m) == IF DictFind(m, "status") THEN m.status ELSE STATUS_ERROR

\* a handler that never takes the error branch
NeverError(status) == FALSE

\* main.c:124
IsErrorStatus(status) == status = STATUS_ERROR

\* main.c:125-126
ErrorText(m) == IF DictFind(m, "error") THEN m.error ELSE UnknownError

\* main.c:127-144: the error window is pushed and the callback returns
ShowError(G, m) ==
  [G EXCEPT !.error_message = Snprintf(ERROR_MESSAGE_SIZE, ErrorPrefix \o ErrorText(m)),
            !.window_stack = Append(@, "error"),
            !.events = Append(@, "error_window")]

\* a count stored as received
NoClamp(count, max) == count

\* main.c:167-170 and 182-185: only an upper clamp is applied
Clamp(count, max) == IF count > max THEN max ELSE count

\* a request built from the token held before the login outcome
StaleRequestToken(old, new) == old

\* main.c:152,158,274: the request reads s_token after it was overwritten
LoginRequestToken(old, new) == new

\* a listing that wipes the table when its count arrives
ClearedByCount(table, blank) == [i \in DOMAIN table |-> blank]

\* main.c:166-174 and 181-191: a count leaves the table's slots alone
TableAfterCount(table, blank) == table

\* a completion that skips the first row
CompletionAboveFirst(index, count) == index > 0 /\ index < count

\* a completion that checks only the lower bound
CompletionAboveZero(index, count) == index >= 0

\* main.c:199
CompletionInBounds(index, count) == index >= 0 /\ index < count

\* a reload of the reminders menu made whether or not the window exists
ReloadAlways(window) == TRUE

\* main.c:188 and 237: if (s_reminders_window)
ReloadWanted(window) == window

\* what an int32 reads as when string bytes land on it
GarbageInt == 257 * UINT16_RANGE + 257

\* A write through an index outside its table is undefined behaviour: it may
\* land on any neighbouring static, on nothing the program reads, or fault.
OutOfBoundsWrite(G, junk) ==
  {G,
   [G EXCEPT !.s_token = junk],
   [G EXCEPT !.s_is_logged_in = ~@],
   [G EXCEPT !.s_list_count = GarbageInt],
   [G EXCEPT !.s_reminder_count = GarbageInt],
   [G EXCEPT !.s_lists[MAX_LISTS - 1] = [id |-> Snprintf(ID_SIZE, junk), title |-> Empty]],
   [G EXCEPT !.running = FALSE]}

\* window_stack_remove(s_settings_window, true), main.c:157
RemoveSettingsWindow(G) ==
  LET H == [G EXCEPT !.events = Append(@, "remove_settings")]
  IN IF G.s_settings_window
     THEN Unload([H EXCEPT !.window_stack = WindowStackRemove(@, "settings")], "settings")
     ELSE H

\* window_stack_remove(s_detail_window, true), main.c:204
RemoveDetailWindow(G) ==
  LET H == [G EXCEPT !.events = Append(@, "remove_detail")]
  IN IF G.s_detail_window = "pushed"
     THEN Unload([H EXCEPT !.window_stack = WindowStackRemove(@, "detail")], "detail")
     ELSE H

\* case CMD_LOGIN, main.c:148-161
OnLogin(G, m) ==
  IF DictFind(m, "token")
  THEN LET new == Snprintf(TOKEN_SIZE, m.token)
           saved == [G EXCEPT !.s_token = new, !.s_is_logged_in = TRUE,
                              !.persist_token = new,
                              !.events = Append(@, "save_settings")]
           closed == RemoveSettingsWindow(saved)
       IN {[closed EXCEPT !.outbox =
              Append(@, GetListsRequest(LoginRequestToken(G.s_token, new)))]}
  ELSE {G}

\* case CMD_GET_LISTS, main.c:163-176
OnGetLists(G, m) ==
  IF DictFind(m, "count")
  THEN {[G EXCEPT !.s_list_count = Clamp(m.count, MAX_LISTS),
                  !.s_lists = TableAfterCount(@, EmptyList),
                  !.events = Append(@, "reload_lists")]}
  ELSE {G}

\* case CMD_GET_REMINDERS, main.c:178-193
OnGetReminders(G, m) ==
  IF DictFind(m, "count")
  THEN {[G EXCEPT !.s_reminder_count = Clamp(m.count, MAX_REMINDERS),
                  !.s_reminders = TableAfterCount(@, EmptyReminder),
                  !.events = IF ReloadWanted(G.s_reminders_window)
                             THEN Append(@, "reload_reminders") ELSE @]}
  ELSE {G}

\* case CMD_COMPLETE_REMINDER, main.c:195-208. The removal of the detail
\* window and the reload of the reminders menu are recorded as the calls the
\* code makes, whether or not that window and that menu exist at the time.
OnCompleteReminder(G, m) ==
  IF StatusOf(m) = STATUS_SUCCESS
  THEN LET i == G.s_current_reminder_index
           marked ==
             IF CompletionInBounds(i, G.s_reminder_count)
             THEN IF i \in ReminderSlots
                  THEN {[G EXCEPT !.s_reminders[i].completed = TRUE,
                                  !.wrote = @ \cup {<<"reminders", i>>}]}
                  ELSE OutOfBoundsWrite([G EXCEPT !.wrote = @ \cup {<<"reminders", i>>}],
                                        <<1>>)
             ELSE {G}
       IN {IF H.running
           THEN [RemoveDetailWindow(H) EXCEPT !.events = Append(@, "reload_reminders")]
           ELSE H : H \in marked}
  ELSE {G}

\* switch (cmd), main.c:147-209
OnOutcome(G, m) ==
  IF m.cmd = CMD_LOGIN THEN OnLogin(G, m)
  ELSE IF m.cmd = CMD_GET_LISTS THEN OnGetLists(G, m)
  ELSE IF m.cmd = CMD_GET_REMINDERS THEN OnGetReminders(G, m)
  ELSE IF m.cmd = CMD_COMPLETE_REMINDER THEN OnCompleteReminder(G, m)
  ELSE {G}

\* main.c:223: the list shape, and an index below the lists capacity
IsListFragment(m) ==
  DictFind(m, "list_id") /\ DictFind(m, "list_title") /\ m.index < MAX_LISTS

\* main.c:228: the reminder shape, and an index below the reminders capacity
IsReminderFragment(m) ==
  DictFind(m, "reminder_id") /\ DictFind(m, "reminder_title") /\ m.index < MAX_REMINDERS

\* main.c:225-227
WriteList(G, m) ==
  LET slot == [id |-> Snprintf(ID_SIZE, m.list_id),
               title |-> Snprintf(LIST_TITLE_SIZE, m.list_title)]
      W == [G EXCEPT !.wrote = @ \cup {<<"lists", m.index>>}]
      stored == IF m.index \in ListSlots
                THEN {[W EXCEPT !.s_lists[m.index] = slot]}
                ELSE OutOfBoundsWrite(W, m.list_id)
  IN {IF H.running THEN [H EXCEPT !.events = Append(@, "reload_lists")] ELSE H :
        H \in stored}

\* main.c:230-239: list_id is written only when present; completed defaults to 0
WriteReminder(G, m) ==
  LET old == IF m.index \in ReminderSlots THEN G.s_reminders[m.index] ELSE EmptyReminder
      slot == [id |-> Snprintf(ID_SIZE, m.reminder_id),
               title |-> Snprintf(REMINDER_TITLE_SIZE, m.reminder_title),
               list_id |-> IF DictFind(m, "list_id")
                           THEN Snprintf(ID_SIZE, m.list_id) ELSE old.list_id,
               completed |-> DictFind(m, "completed") /\ m.completed # 0]
      W == [G EXCEPT !.wrote = @ \cup {<<"reminders", m.index>>}]
      stored == IF m.index \in ReminderSlots
                THEN {[W EXCEPT !.s_reminders[m.index] = slot]}
                ELSE OutOfBoundsWrite(W, m.reminder_id)
  IN {IF H.running /\ ReloadWanted(H.s_reminders_window)
      THEN [H EXCEPT !.events = Append(@, "reload_reminders")] ELSE H :
        H \in stored}

\* main.c:211-241
OnFragment(G, m) ==
  IF ~G.running \/ ~DictFind(m, "index") THEN {G}
  ELSE IF IsListFragment(m) THEN WriteList(G, m)
  ELSE IF IsReminderFragment(m) THEN WriteReminder(G, m)
  ELSE {G}

\* the whole callback: every result it can leave behind
InboxReceived(G, m) ==
  IF ~HasCommand(m) THEN {G}
  ELSE IF IsErrorStatus(StatusOf(m)) THEN {ShowError(G, m)}
  ELSE UNION {OnFragment(H, m) : H \in OnOutcome(G, m)}

\* the transport hands one dictionary to the callback
Deliver(m) ==
  /\ running
  /\ \E H \in InboxReceived(Globals, m) : Commit(H)
  /\ last' = m
  /\ op' = "inbox_received"
  /\ in_flight' = IF DictFind(m, "cmd") /\ m.cmd = CMD_COMPLETE_REMINDER
                  THEN << >> ELSE in_flight

(* ------------------------------------------------------------------ *)
(* Click callbacks and the back button                                  *)
(* ------------------------------------------------------------------ *)
Top == window_stack[Len(window_stack)]

\* the rows a user can pick in a menu that reports NumRows(count) rows
RowChoices(count, capacity) ==
  {r \in (0..MaxRow) \cup {capacity} : r < NumRows(count)}

\* what a read past the end of a table may return
JunkStrings == {Empty, <<1>>}

\* menu_select_callback and show_reminders_window, main.c:323-328, 434-441
SelectList ==
  /\ running /\ Top = "main"
  /\ \E row \in RowChoices(s_list_count, MAX_LISTS) :
       \E id \in (IF row \in ListSlots THEN {s_lists[row].id} ELSE JunkStrings) :
         Commit([Globals EXCEPT
                   !.s_current_list_index = row,
                   !.s_reminders_window = TRUE,
                   !.window_stack = Append(@, "reminders"),
                   !.outbox = <<GetRemindersRequest(s_token, id)>>])
  /\ last' = Blank /\ op' = "menu_select"
  /\ UNCHANGED <<nrecv, pending, in_flight>>

\* reminders_menu_select_callback and show_detail_window, main.c:346-350, 390-407
SelectReminder ==
  /\ running /\ Top = "reminders"
  /\ \E row \in RowChoices(s_reminder_count, MAX_REMINDERS) :
       Commit([Globals EXCEPT
                 !.s_current_reminder_index = row,
                 !.s_detail_window = "pushed",
                 !.window_stack = Append(@, "detail")])
  /\ last' = Blank /\ op' = "reminders_menu_select"
  /\ UNCHANGED <<nrecv, pending, in_flight>>

\* action_bar_click_handler, main.c:353-363
ClickComplete ==
  /\ running /\ Top = "detail"
  /\ LET i == s_current_reminder_index
     IN IF i >= 0 /\ i < s_reminder_count
        THEN \E r \in (IF i \in ReminderSlots THEN {s_reminders[i]}
                       ELSE {[EmptyReminder EXCEPT !.id = j, !.completed = c] :
                               j \in JunkStrings, c \in BOOLEAN}) :
               Commit([Globals EXCEPT !.outbox =
                         IF r.completed THEN << >>
                         ELSE <<CompleteReminderRequest(s_token, r.list_id, r.id)>>])
        ELSE Commit(Globals)
  /\ in_flight' = IF outbox' # << >> THEN outbox' ELSE in_flight
  /\ last' = Blank /\ op' = "action_bar_click"
  /\ UNCHANGED <<nrecv, pending>>

\* the back button pops the top window, whose unload handler runs
\* (main.c:385-388, 428-432, 454-458); the main window stays
Back ==
  /\ running /\ Len(window_stack) > 1
  /\ Commit(Unload([Globals EXCEPT !.window_stack = SubSeq(@, 1, Len(@) - 1)], Top))
  /\ last' = Blank /\ op' = "back"
  /\ UNCHANGED <<nrecv, pending, in_flight>>

(* ------------------------------------------------------------------ *)
(* Startup: load_settings and init (main.c:88-103, 492-518)             *)
(* ------------------------------------------------------------------ *)
TokenA == <<97, 98, 99>>

TokenB == <<120>>

LongToken == Str(116, TOKEN_SIZE - 1 + Over)

\* what the persistent storage may hold for PERSIST_KEY_TOKEN
PersistedTokens == {Empty, TokenB}

Started(stored) ==
  /\ s_token = stored
  /\ s_is_logged_in = (Len(stored) > 0)
  /\ s_lists = [i \in ListSlots |-> EmptyList]
  /\ s_list_count = 0
  /\ s_reminders = [i \in ReminderSlots |-> EmptyReminder]
  /\ s_reminder_count = 0
  /\ s_current_list_index = -1
  /\ s_current_reminder_index = -1
  /\ s_settings_window = (Len(stored) = 0)
  /\ s_reminders_window = FALSE
  /\ s_detail_window = "null"
  /\ window_stack = IF Len(stored) > 0 THEN <<"main">> ELSE <<"main", "settings">>
  /\ error_message = Empty
  /\ persist_token = stored
  /\ running = TRUE
  /\ outbox = IF Len(stored) > 0 THEN <<GetListsRequest(stored)>> ELSE << >>
  /\ events = << >>
  /\ wrote = {}
  /\ last = Blank
  /\ op = "init"
  /\ nrecv = 0
  /\ in_flight = << >>

(* ------------------------------------------------------------------ *)
(* The dictionaries the phone side may send                             *)
(* ------------------------------------------------------------------ *)
ListIdA == <<76, 49>>

ListIdB == <<76, 50>>

ListTitleA == <<72, 111, 109, 101>>

ListTitleB == <<87, 111, 114, 107>>

LongId == Str(105, ID_SIZE - 1 + Over)

LongListTitle == Str(108, LIST_TITLE_SIZE - 1 + Over)

ReminderIdA == <<82, 49>>

ReminderIdB == <<82, 50>>

ReminderTitleA == <<77, 105, 108, 107>>

ReminderTitleB == <<66, 105, 110>>

LongReminderTitle == Str(114, REMINDER_TITLE_SIZE - 1 + Over)

ErrorTextA == <<78, 111>>

\* a command tag and a status code outside the enumerations
OtherCommand == CMD_COMPLETE_REMINDER + 1

OtherStatus == STATUS_SUCCESS + 1

Command(cmd) == With(Blank, "cmd", cmd)

Outcome(cmd, status) == With(Command(cmd), "status", status)

ListFragment(m, index, id, title) ==
  With(With(With(m, "index", index), "list_id", id), "list_title", title)

ReminderFragment(m, index, id, title) ==
  With(With(With(m, "index", index), "reminder_id", id), "reminder_title", title)

ErrorMessages ==
  {With(Outcome(CMD_LOGIN, STATUS_ERROR), "token", TokenA),
   ListFragment(With(Outcome(CMD_GET_LISTS, STATUS_ERROR), "count", 2), 0, ListIdA, ListTitleA),
   ReminderFragment(With(Outcome(CMD_GET_REMINDERS, STATUS_ERROR), "count", 2), 1,
                    ReminderIdA, ReminderTitleA),
   ReminderFragment(With(Command(CMD_GET_REMINDERS), "count", 1), 1,
                    ReminderIdB, ReminderTitleB),
   With(Outcome(CMD_COMPLETE_REMINDER, STATUS_ERROR), "error", ErrorTextA),
   ListFragment(Outcome(OtherCommand, STATUS_ERROR), 1, ListIdB, ListTitleB)}

LoginMessages ==
  {With(Outcome(CMD_LOGIN, STATUS_SUCCESS), "token", TokenA),
   With(Outcome(CMD_LOGIN, STATUS_SUCCESS), "token", Empty),
   With(Outcome(CMD_LOGIN, STATUS_SUCCESS), "token", LongToken),
   With(Outcome(CMD_LOGIN, OtherStatus), "token", TokenA),
   Outcome(CMD_LOGIN, STATUS_SUCCESS)}

\* counts around a capacity, and a negative one
Counts(capacity) == {-1, 0, 2, capacity, capacity + 1}

CountMessages ==
  {With(Outcome(CMD_GET_LISTS, STATUS_SUCCESS), "count", c) : c \in Counts(MAX_LISTS)}
  \cup {With(Outcome(CMD_GET_REMINDERS, STATUS_SUCCESS), "count", c) :
          c \in Counts(MAX_REMINDERS)}
  \cup {Outcome(CMD_GET_LISTS, STATUS_SUCCESS)}

CompleteMessages ==
  {Outcome(CMD_COMPLETE_REMINDER, STATUS_SUCCESS),
   Outcome(CMD_COMPLETE_REMINDER, OtherStatus)}

ListsOk == Outcome(CMD_GET_LISTS, STATUS_SUCCESS)

RemindersOk == Outcome(CMD_GET_REMINDERS, STATUS_SUCCESS)

ListFragmentMessages ==
  {ListFragment(ListsOk, 0, ListIdA, ListTitleA),
   ListFragment(ListsOk, 0, ListIdB, ListTitleB),
   ListFragment(ListsOk, 1, LongId, LongListTitle),
   ListFragment(ListsOk, MAX_LISTS - 1, ListIdA, ListTitleB),
   ListFragment(ListsOk, MAX_LISTS, ListIdA, ListTitleA),
   ListFragment(ListsOk, -1, ListIdA, ListTitleA),
   ListFragment(Outcome(OtherCommand, STATUS_SUCCESS), 1, ListIdB, ListTitleB),
   ListFragment(With(ListsOk, "count", 1), 0, ListIdB, ListTitleA),
   ReminderFragment(ListFragment(ListsOk, MAX_LISTS + 5, ListIdA, ListTitleA),
                    MAX_LISTS + 5, ReminderIdA, ReminderTitleA)}

ReminderFragmentMessages ==
  {With(With(ReminderFragment(RemindersOk, 0, ReminderIdA, ReminderTitleA),
             "list_id", ListIdA), "completed", 1),
   ReminderFragment(RemindersOk, 0, ReminderIdB, ReminderTitleB),
   ReminderFragment(RemindersOk, 1, ReminderIdA, LongReminderTitle),
   With(ReminderFragment(RemindersOk, 5, ReminderIdB, ReminderTitleA), "list_id", ListIdB),
   ReminderFragment(RemindersOk, MAX_REMINDERS - 1, ReminderIdA, ReminderTitleB),
   ReminderFragment(RemindersOk, MAX_REMINDERS, ReminderIdA, ReminderTitleA),
   ReminderFragment(RemindersOk, -1, ReminderIdA, ReminderTitleA)}

\* dictionaries without a command key
BareMessages ==
  {ListFragment(Blank, 0, ListIdA, ListTitleA),
   ReminderFragment(With(Blank, "status", STATUS_SUCCESS), 0, ReminderIdA, ReminderTitleA)}

Messages ==
  ErrorMessages \cup LoginMessages \cup CountMessages \cup CompleteMessages
  \cup ListFragmentMessages \cup ReminderFragmentMessages \cup BareMessages

\* the dictionaries of a session that browses one list and completes a reminder
ViewMessages ==
  {With(ListsOk, "count", 2),
   With(RemindersOk, "count", 2),
   With(RemindersOk, "count", 0),
   With(With(ReminderFragment(RemindersOk, 0, ReminderIdA, ReminderTitleA),
             "list_id", ListIdA), "completed", 0),
   ReminderFragment(RemindersOk, 1, ReminderIdB, ReminderTitleB),
   With(ReminderFragment(RemindersOk, 5, ReminderIdB, ReminderTitleA), "list_id", ListIdB),
   Outcome(CMD_COMPLETE_REMINDER, STATUS_SUCCESS),
   With(Outcome(CMD_COMPLETE_REMINDER, STATUS_ERROR), "error", ErrorTextA)}

\* one listing: the count and a fragment for each of the slots 0..n-1,
\* with ids that rise or fall with the slot index
ListingId(i, rising) == <<76, IF rising THEN 49 + i ELSE 57 - i>>

Listing(n, rising) ==
  {With(ListsOk, "count", n)}
  \cup {ListFragment(ListsOk, i, ListingId(i, rising), <<84, 49 + i>>) : i \in 0..(n - 1)}

NoListing == [all |-> {}, left |-> {}]

(* ------------------------------------------------------------------ *)
(* Specifications                                                       *)
(* ------------------------------------------------------------------ *)
Init ==
  /\ \E stored \in PersistedTokens : Started(stored)
  /\ pending = NoListing

\* any dictionary may arrive, at most MaxMsgs of them
Receive ==
  /\ nrecv < MaxMsgs
  /\ \E m \in Messages : Deliver(m)
  /\ nrecv' = nrecv + 1
  /\ UNCHANGED pending

Next == Receive \/ SelectList \/ SelectReminder \/ ClickComplete \/ Back

Spec == Init /\ [][Next]_vars

\* a browsing session, at most MaxViewMsgs dictionaries
ReceiveView ==
  /\ nrecv < MaxViewMsgs
  /\ \E m \in ViewMessages : Deliver(m)
  /\ nrecv' = nrecv + 1
  /\ UNCHANGED pending

NextView == ReceiveView \/ SelectList \/ SelectReminder \/ ClickComplete \/ Back

SpecView == Init /\ [][NextView]_vars

\* one listing in flight, delivered in any order
InitOrder ==
  /\ \E stored \in PersistedTokens : Started(stored)
  /\ \E n \in 1..MaxListing, rising \in BOOLEAN :
       pending = [all |-> Listing(n, rising), left |-> Listing(n, rising)]

ReceiveListing ==
  /\ \E m \in pending.left :
       /\ Deliver(m)
       /\ pending' = [pending EXCEPT !.left = @ \ {m}]
  /\ nrecv' = nrecv + 1

NextOrder == ReceiveListing \/ SelectList \/ Back

SpecOrder == InitOrder /\ [][NextOrder]_vars

(* ------------------------------------------------------------------ *)
(* Properties                                                           *)
(* ------------------------------------------------------------------ *)
\* the first n characters of s
Prefix(s, n) == SubSeq(s, 1, Min(Len(s), n))

\* the step is one run of the inbox callback, on the dictionary last'
Processing == op' = "inbox_received"

\* the dictionary carries a command and a status other than ERROR
NonError(m) ==
  DictFind(m, "cmd") /\ DictFind(m, "status") /\ m.status # STATUS_ERROR

ListShaped(m) == DictFind(m, "list_id") /\ DictFind(m, "list_title")

ReminderShaped(m) == DictFind(m, "reminder_id") /\ DictFind(m, "reminder_title")

cache == <<s_lists, s_reminders, s_list_count, s_reminder_count>>

globals ==
  <<s_token, s_is_logged_in, s_lists, s_list_count, s_reminders,
    s_reminder_count, s_current_list_index, s_current_reminder_index,
    s_settings_window, s_reminders_window, s_detail_window, window_stack,
    error_message, persist_token, running>>

\* C1: a dictionary whose status is ERROR, whatever its command and whatever
\* fragment it also carries, leaves both tables, both counts, the token and
\* the login flag as they were.
C1_ErrorChangesNoCacheNoSession ==
  [][(Processing /\ DictFind(last', "status") /\ last'.status = STATUS_ERROR)
       => UNCHANGED <<cache, s_token, s_is_logged_in>>]_vars

\* an ERROR dictionary with a list fragment for slot 0 was processed after a
\* count had made slot 0 visible: the error window is up, the slot still empty
C1_Witness ==
  /\ op = "inbox_received"
  /\ DictFind(last, "cmd") /\ DictFind(last, "status") /\ last.status = STATUS_ERROR
  /\ ListShaped(last) /\ DictFind(last, "index") /\ last.index = 0
  /\ s_list_count > 0
  /\ s_lists[0] = EmptyList
  /\ events = <<"error_window">>

\* C2: processing a Login dictionary in an unauthenticated session makes the
\* session authenticated exactly when the dictionary carries status SUCCESS
\* and a non-empty token.
C2_LoginAuthenticatesIffSuccessAndToken ==
  [][(Processing /\ DictFind(last', "cmd") /\ last'.cmd = CMD_LOGIN /\ ~s_is_logged_in)
       => (s_is_logged_in' <=>
             (/\ DictFind(last', "status") /\ last'.status = STATUS_SUCCESS
              /\ DictFind(last', "token") /\ Len(last'.token) > 0))]_vars

\* C3 as stated: a non-error Login outcome with a token stores that token and
\* sends exactly one GetLists request carrying it.
C3_LoginStoresTokenAsReceived ==
  [][(Processing /\ NonError(last') /\ last'.cmd = CMD_LOGIN /\ DictFind(last', "token"))
       => /\ s_token' = last'.token
          /\ outbox' = <<GetListsRequest(last'.token)>>]_vars

\* C3 amended: a non-error Login outcome with a token stores the first
\* TOKEN_SIZE-1 characters of that token and sends exactly one GetLists
\* request, which carries the token just stored.
C3_LoginStoresTokenThenRequestsLists ==
  [][(Processing /\ NonError(last') /\ last'.cmd = CMD_LOGIN /\ DictFind(last', "token"))
       => /\ s_token' = Prefix(last'.token, TOKEN_SIZE - 1)
          /\ outbox' = <<GetListsRequest(Prefix(last'.token, TOKEN_SIZE - 1))>>]_vars

\* a token too long for s_token replaced a different token, and the one
\* request of the step carries what was stored
C3_Witness ==
  /\ op = "inbox_received"
  /\ NonError(last) /\ last.cmd = CMD_LOGIN /\ DictFind(last, "token")
  /\ Len(last.token) >= TOKEN_SIZE
  /\ Len(s_token) = TOKEN_SIZE - 1
  /\ outbox = <<GetListsRequest(s_token)>>
  /\ persist_token = s_token

\* C4: a non-error GetLists (GetReminders) outcome with a count C >= 0 leaves
\* the stored lists (reminders) count at C when C is at most the capacity and
\* at the capacity when C is above it.
C4_CountClampedToCapacity ==
  [][(Processing /\ NonError(last') /\ DictFind(last', "count") /\ last'.count >= 0)
       => /\ last'.cmd = CMD_GET_LISTS =>
               s_list_count' = (IF last'.count > MAX_LISTS THEN MAX_LISTS ELSE last'.count)
          /\ last'.cmd = CMD_GET_REMINDERS =>
               s_reminder_count' =
                 (IF last'.count > MAX_REMINDERS THEN MAX_REMINDERS ELSE last'.count)]_vars

\* a reminders count above the capacity was just clamped, the lists count
\* standing at its capacity as well
C4_Witness ==
  /\ op = "inbox_received"
  /\ NonError(last) /\ last.cmd = CMD_GET_REMINDERS
  /\ DictFind(last, "count") /\ last.count > MAX_REMINDERS
  /\ s_reminder_count = MAX_REMINDERS
  /\ s_list_count = MAX_LISTS

\* C5 as stated: after a non-error ListFragment for a slot k below the stored
\* count, slot k holds exactly the fragment's id and title and the lists menu
\* was told to reload.
C5_SlotHoldsFragmentAsReceived ==
  [][(/\ Processing /\ NonError(last') /\ DictFind(last', "index") /\ ListShaped(last')
      /\ last'.index \in ListSlots /\ last'.index < s_list_count')
       => /\ s_lists'[last'.index] = [id |-> last'.list_id, title |-> last'.list_title]
          /\ \E e \in 1..Len(events') : events'[e] = "reload_lists"]_vars

\* C5 amended: slot k holds the first ID_SIZE-1 characters of the fragment's id
\* and the first LIST_TITLE_SIZE-1 characters of its title, at once and whatever
\* the other slots hold, and the lists menu was told to reload.
C5_SlotHoldsFragmentAtOnce ==
  [][(/\ Processing /\ NonError(last') /\ DictFind(last', "index") /\ ListShaped(last')
      /\ last'.index \in ListSlots /\ last'.index < s_list_count')
       => /\ s_lists'[last'.index] =
               [id |-> Prefix(last'.list_id, ID_SIZE - 1),
                title |-> Prefix(last'.list_title, LIST_TITLE_SIZE - 1)]
          /\ \E e \in 1..Len(events') : events'[e] = "reload_lists"]_vars

\* the fragment for slot 1 arrived with overlong strings while slot 0 had
\* received nothing: slot 1 is filled (cut to size) and the menu reloaded
C5_Witness ==
  /\ op = "inbox_received"
  /\ NonError(last) /\ ListShaped(last) /\ DictFind(last, "index")
  /\ last.index = 1 /\ s_list_count = 2
  /\ Len(last.list_id) >= ID_SIZE
  /\ s_lists[1].id = Prefix(last.list_id, ID_SIZE - 1)
  /\ s_lists[1].id # last.list_id
  /\ s_lists[0] = EmptyList
  /\ events = <<"reload_lists">>

\* C6: once the count and the fragments of one listing have all been
\* processed, in whatever order (fragments before the count included), the
\* stored count is the listing's count and each slot holds the id and title of
\* the fragment addressed to it, whatever the order of the ids (the listing's
\* strings fit their fields).
C6_ListingOrderDoesNotMatter ==
  (pending.all # {} /\ pending.left = {})
    => \A m \in pending.all :
         /\ DictFind(m, "count") => s_list_count = m.count
         /\ DictFind(m, "index") =>
              s_lists[m.index] = [id |-> m.list_id, title |-> m.list_title]

\* the largest listing is complete, its count was the last dictionary to
\* arrive, and its ids fall as the slot index rises
C6_Witness ==
  /\ pending.left = {}
  /\ Cardinality(pending.all) = MaxListing + 1
  /\ op = "inbox_received" /\ DictFind(last, "count")
  /\ s_list_count = MaxListing
  /\ s_lists[0].id = ListingId(0, FALSE)
  /\ s_lists[MaxListing - 1].id = ListingId(MaxListing - 1, FALSE)

C8_CompletionWithoutSelectionIsNoOp ==
  [][(/\ Processing /\ DictFind(last', "cmd") /\ last'.cmd = CMD_COMPLETE_REMINDER
      /\ DictFind(last', "status") /\ last'.status = STATUS_SUCCESS
      /\ ~DictFind(last', "index")
      /\ (s_current_reminder_index = -1 \/ s_current_reminder_index >= s_reminder_count))
       => UNCHANGED cache]_vars

\* a completion arrived for a selected row that a later, shorter listing
\* had put beyond the count; the row was filled and is still not completed
C8_Witness ==
  /\ op = "inbox_received"
  /\ DictFind(last, "cmd") /\ last.cmd = CMD_COMPLETE_REMINDER
  /\ DictFind(last, "status") /\ last.status = STATUS_SUCCESS
  /\ s_current_reminder_index >= 0
  /\ s_current_reminder_index >= s_reminder_count
  /\ s_reminders[s_current_reminder_index].id # Empty
  /\ ~s_reminders[s_current_reminder_index].completed
  /\ events = <<"remove_detail", "reload_reminders">>

\* the slot a non-error reminder fragment leaves behind (main.c:230-235)
ReminderStored(m, old) ==
  [id |-> Prefix(m.reminder_id, ID_SIZE - 1),
   title |-> Prefix(m.reminder_title, REMINDER_TITLE_SIZE - 1),
   list_id |-> IF DictFind(m, "list_id") THEN Prefix(m.list_id, ID_SIZE - 1)
               ELSE old.list_id,
   completed |-> DictFind(m, "completed") /\ m.completed # 0]

\* a non-error reminder fragment for a slot at or beyond the stored count
BeyondCount(m, count) ==
  /\ NonError(m) /\ DictFind(m, "index") /\ ~ListShaped(m) /\ ReminderShaped(m)
  /\ m.index \in ReminderSlots /\ count <= m.index

Reloaded(evs, what) == \E e \in 1..Len(evs) : evs[e] = what

\* C9 as stated: a reminder fragment for a slot k with count <= k < capacity
\* is written to slot k and no reminders-menu reload is made for it.
C9_BeyondCountNeverReloads ==
  [][(Processing /\ BeyondCount(last', s_reminder_count'))
       => /\ s_reminders'[last'.index] = ReminderStored(last', s_reminders[last'.index])
          /\ ~Reloaded(events', "reload_reminders")]_vars

\* C9 amended: the fragment is written to slot k, and the reminders menu is
\* reloaded for it exactly when the reminders window is open.
C9_BeyondCountReloadsIffWindowOpen ==
  [][(Processing /\ BeyondCount(last', s_reminder_count'))
       => /\ s_reminders'[last'.index] = ReminderStored(last', s_reminders[last'.index])
          /\ Reloaded(events', "reload_reminders") <=> s_reminders_window]_vars

\* count 2, fragment at slot 5, reminders window open: stored and reloaded
C9_Witness ==
  /\ op = "inbox_received"
  /\ BeyondCount(last, s_reminder_count)
  /\ s_reminder_count = 2 /\ last.index = 5
  /\ s_reminders_window
  /\ s_reminders[5].id = last.reminder_id
  /\ events = <<"reload_reminders">>

\* the table a fragment's shape selects: lists when list id and title are
\* present, else reminders when reminder id and title are present
BeyondCapacity(m) ==
  /\ DictFind(m, "index")
  /\ \/ ListShaped(m) /\ m.index >= MAX_LISTS
     \/ ~ListShaped(m) /\ ReminderShaped(m) /\ m.index >= MAX_REMINDERS

\* C10: a non-error dictionary that carries, beside its command and status,
\* only a fragment whose slot index is at or beyond the capacity of the table
\* its shape selects changes neither table and neither count, raises no error
\* window and reloads no menu.
C10_BeyondCapacityDropped ==
  [][(/\ Processing /\ NonError(last') /\ BeyondCapacity(last')
      /\ last'.cmd \in {CMD_GET_LISTS, CMD_GET_REMINDERS}
      /\ ~DictFind(last', "count"))
       => (UNCHANGED cache /\ events' = << >>)]_vars

\* C11: a non-error GetReminders outcome with a count stores the count, cut
\* to the capacity, whether or not the reminders window is open, and the
\* reminders menu is reloaded exactly when the window is open.
C11_ReminderCountStoredReloadIfOpen ==
  [][(/\ Processing /\ NonError(last') /\ last'.cmd = CMD_GET_REMINDERS
      /\ DictFind(last', "count") /\ ~DictFind(last', "index"))
       => /\ s_reminder_count' =
               (IF last'.count > MAX_REMINDERS THEN MAX_REMINDERS ELSE last'.count)
          /\ Reloaded(events', "reload_reminders") <=> s_reminders_window]_vars

\* a count above the capacity arrived while the reminders window was closed:
\* it is stored, clamped, and no reload was made
C11_Witness ==
  /\ op = "inbox_received"
  /\ NonError(last) /\ last.cmd = CMD_GET_REMINDERS
  /\ DictFind(last, "count") /\ last.count > MAX_REMINDERS
  /\ ~s_reminders_window
  /\ s_list_count > 0
  /\ s_reminder_count = MAX_REMINDERS
  /\ events = << >>

\* C12: whenever the detail window is not open the reminder selection is -1,
\* and whenever the reminders window is not open the list selection is -1.
C12_SelectionResetOnDismiss ==
  /\ s_detail_window # "pushed" => s_current_reminder_index = -1
  /\ ~s_reminders_window => s_current_list_index = -1

\* C13: in every state the login flag is set exactly when the stored token
\* is not empty.
C13_LoggedInIffTokenNonEmpty ==
  s_is_logged_in <=> Len(s_token) > 0

\* C14: after a non-error reminder fragment is written to slot k, every field
\* of slot k comes from the fragment alone: id and title cut to their sizes,
\* the list id of the fragment or the empty string when it carries none, and
\* completed false when it carries none.
C14_FragmentOverwritesSlot ==
  [][(/\ Processing /\ NonError(last') /\ DictFind(last', "index")
      /\ ~ListShaped(last') /\ ReminderShaped(last')
      /\ last'.index \in ReminderSlots)
       => s_reminders'[last'.index] =
            [id |-> Prefix(last'.reminder_id, ID_SIZE - 1),
             title |-> Prefix(last'.reminder_title, REMINDER_TITLE_SIZE - 1),
             list_id |-> IF DictFind(last', "list_id")
                         THEN Prefix(last'.list_id, ID_SIZE - 1) ELSE Empty,
             completed |-> DictFind(last', "completed") /\ last'.completed # 0]]_vars

\* C15: no run of the inbox callback, whatever the user did before it,
\* reloads the reminders menu while the reminders window is closed or removes
\* the detail window while the detail window is not open; a CompleteReminder
\* SUCCESS outcome that arrives with either window closed does neither.
C15_NoActionOnClosedWindow ==
  [][Processing =>
       /\ Reloaded(events', "reload_reminders") => s_reminders_window
       /\ Reloaded(events', "remove_detail") => s_detail_window = "pushed"]_vars

\* C16: a CompleteReminder SUCCESS outcome without a fragment, processed while
\* the reminder selection i satisfies 0 <= i < stored reminders count, sets
\* completed in slot i and changes nothing else in either table nor either
\* count; and no dictionary without a fragment turns a completed flag back
\* to false.
C16_CompletionMarksOnlySelectedSlot ==
  [][Processing =>
       /\ (/\ DictFind(last', "cmd") /\ last'.cmd = CMD_COMPLETE_REMINDER
           /\ DictFind(last', "status") /\ last'.status = STATUS_SUCCESS
           /\ ~DictFind(last', "index")
           /\ s_current_reminder_index >= 0
           /\ s_current_reminder_index < s_reminder_count)
            => /\ s_reminders' =
                    [s_reminders EXCEPT ![s_current_reminder_index].completed = TRUE]
               /\ UNCHANGED <<s_lists, s_list_count, s_reminder_count>>
       /\ ~DictFind(last', "index") =>
            \A k \in ReminderSlots :
              s_reminders[k].completed => s_reminders'[k].completed]_vars

\* rows 0 and 1 were listed, row 0 was selected and its completion arrived:
\* row 0 is completed with its id kept, row 1 is as it was
C16_Witness ==
  /\ op = "inbox_received"
  /\ DictFind(last, "cmd") /\ last.cmd = CMD_COMPLETE_REMINDER
  /\ DictFind(last, "status") /\ last.status = STATUS_SUCCESS
  /\ s_current_reminder_index = 0 /\ s_reminder_count = 2
  /\ s_reminders[0].completed /\ s_reminders[0].id = ReminderIdA
  /\ s_reminders[1].id = ReminderIdB /\ ~s_reminders[1].completed

\* C17: a non-error GetLists or GetReminders outcome that carries a count and
\* no fragment leaves every slot of both tables as it was, slots at or beyond
\* the new count included, and leaves the other table's count as it was.
C17_CountClearsNoSlot ==
  [][(/\ Processing /\ NonError(last')
      /\ last'.cmd \in {CMD_GET_LISTS, CMD_GET_REMINDERS}
      /\ DictFind(last', "count") /\ ~DictFind(last', "index"))
       => /\ UNCHANGED <<s_lists, s_reminders>>
          /\ last'.cmd = CMD_GET_LISTS => UNCHANGED s_reminder_count
          /\ last'.cmd = CMD_GET_REMINDERS => UNCHANGED s_list_count]_vars

\* the last slot of the lists table was filled, then a count of 2 arrived:
\* the slot still holds its entry, beyond the count
C17_Witness ==
  /\ op = "inbox_received"
  /\ NonError(last) /\ last.cmd = CMD_GET_LISTS
  /\ DictFind(last, "count") /\ ~DictFind(last, "index")
  /\ last.count = 2 /\ s_list_count = 2
  /\ s_lists[MAX_LISTS - 1].id = ListIdA

\* C18: in every state 0 <= stored lists count <= MAX_LISTS and
\* 0 <= stored reminders count <= MAX_REMINDERS, so neither menu is told of
\* more rows than its table has slots.
C18_CountsWithinCapacity ==
  /\ 0 <= s_list_count /\ s_list_count <= MAX_LISTS
  /\ 0 <= s_reminder_count /\ s_reminder_count <= MAX_REMINDERS
  /\ NumRows(s_list_count) <= MAX_LISTS
  /\ NumRows(s_reminder_count) <= MAX_REMINDERS

\* C19: every write the inbox callback makes into a table is at an index
\* inside it: 0..MAX_LISTS-1 for the lists table, 0..MAX_REMINDERS-1 for the
\* reminders table.
C19_WritesInsideTables ==
  \A w \in wrote :
    /\ w[1] = "lists" => w[2] \in ListSlots
    /\ w[1] = "reminders" => w[2] \in ReminderSlots

\* C20: when a CompleteReminder SUCCESS outcome answers a request in flight,
\* every reminder it newly marks completed has the id that request carried,
\* whatever the user selected and whatever was re-listed in between.
C20_CompletionMarksRequestedReminder ==
  [][(/\ Processing /\ in_flight # << >>
      /\ DictFind(last', "cmd") /\ last'.cmd = CMD_COMPLETE_REMINDER
      /\ DictFind(last', "status") /\ last'.status = STATUS_SUCCESS)
       => \A k \in ReminderSlots :
            (s_reminders'[k].completed /\ ~s_reminders[k].completed)
              => s_reminders[k].id = in_flight[1].reminder_id]_vars

====
